---------------------------- MODULE Spec2Model ----------------------------
(***************************************************************************)
(* GIS_WebApp: the query helpers of web_app/utils.py, the two layer views  *)
(* of web_app/views.py and the get_all methods of web_app/models.py.       *)
(*                                                                         *)
(* One call is in progress at a time.  A call walks through the steps of   *)
(* its code: connection.cursor(), cursor.execute(), building the row       *)
(* dicts, leaving the `with` block, then building its result or handling   *)
(* the exception.  The database is the environment: whether the cursor can *)
(* be opened, whether the statement fails, and which rows come back are    *)
(* chosen nondeterministically.                                            *)
(*                                                                         *)
(* A Python str holding JSON is modelled as the sequence of its lexical    *)
(* tokens (the str is their concatenation); json.loads is a recursive      *)
(* descent over the tokens that follows json.decoder.                      *)
(***************************************************************************)
EXTENDS Integers, Sequences, FiniteSets, TLC

VARIABLES pc, op, query, cursorOpen, acquired, executed, data, raised, ret, printed

vars == <<pc, op, query, cursorOpen, acquired, executed, data, raised, ret, printed>>

\* Most rows a result set holds.
MaxRows == 2

----------------------------------------------------------------------------
(* Python values *)

PyNone == [py |-> "None"]
PyStr(toks) == [py |-> "str", toks |-> toks]

\* len(s) of the str whose tokens are toks[1..n].
RECURSIVE TextLen(_, _)
TextLen(toks, n) == IF n = 0 THEN 0 ELSE TextLen(toks, n - 1) + Len(toks[n])

\* Index in the str of the first character of token i (len(s) past the end).
CharPos(toks, i) == TextLen(toks, i - 1)

\* bool(v) for a geometry value: None and '' are falsy.
Truthy(v) == v # PyNone /\ v.toks # <<>>

NoExc == [type |-> "none"]
Exc(type, msg) == [type |-> type, msg |-> msg]

\* str(e)
str(e) == e.msg

----------------------------------------------------------------------------
(* json.loads *)

StrTokens == {"\"type\"", "\"Point\"", "\"coordinates\""}
StrVal(tok) ==
    CASE tok = "\"type\"" -> "type"
      [] tok = "\"Point\"" -> "Point"
      [] tok = "\"coordinates\"" -> "coordinates"

NumTokens == {"0", "1", "2"}
NumVal(tok) ==
    CASE tok = "0" -> 0
      [] tok = "1" -> 1
      [] tok = "2" -> 2

Parsed(val, end) == [ok |-> TRUE, val |-> val, end |-> end]
ParseError(msg, at) == [ok |-> FALSE, msg |-> msg, at |-> at]

RECURSIVE scan_once(_, _)
RECURSIVE JSONObject(_, _, _)
RECURSIVE JSONArray(_, _, _)

\* The members of an object from token i on, pairs being those read so far.
JSONObject(toks, i, pairs) ==
    IF i > Len(toks) \/ toks[i] \notin StrTokens
    THEN ParseError("Expecting property name enclosed in double quotes", i)
    ELSE IF i + 1 > Len(toks) \/ toks[i + 1] # ":"
    THEN ParseError("Expecting ':' delimiter", i + 1)
    ELSE LET v == scan_once(toks, i + 2) IN
         IF ~v.ok THEN v
         ELSE LET j == v.end
                  more == (StrVal(toks[i]) :> v.val) @@ pairs
              IN  IF j <= Len(toks) /\ toks[j] = "}" THEN Parsed(more, j + 1)
                  ELSE IF j > Len(toks) \/ toks[j] # ","
                  THEN ParseError("Expecting ',' delimiter", j)
                  ELSE JSONObject(toks, j + 1, more)

\* The elements of an array from token i on, values being those read so far.
JSONArray(toks, i, values) ==
    LET v == scan_once(toks, i) IN
    IF ~v.ok THEN v
    ELSE LET j == v.end
             more == Append(values, v.val)
         IN  IF j <= Len(toks) /\ toks[j] = "]" THEN Parsed(more, j + 1)
             ELSE IF j > Len(toks) \/ toks[j] # ","
             THEN ParseError("Expecting ',' delimiter", j)
             ELSE JSONArray(toks, j + 1, more)

\* One JSON value starting at token i.
scan_once(toks, i) ==
    IF i > Len(toks) THEN ParseError("Expecting value", i)
    ELSE LET tok == toks[i] IN
         IF tok \in StrTokens THEN Parsed(StrVal(tok), i + 1)
         ELSE IF tok \in NumTokens THEN Parsed(NumVal(tok), i + 1)
         ELSE IF tok = "{"
         THEN IF i + 1 <= Len(toks) /\ toks[i + 1] = "}"
              THEN Parsed(<<>>, i + 2)
              ELSE JSONObject(toks, i + 1, <<>>)
         ELSE IF tok = "["
         THEN IF i + 1 <= Len(toks) /\ toks[i + 1] = "]"
              THEN Parsed(<<>>, i + 2)
              ELSE JSONArray(toks, i + 1, <<>>)
         ELSE ParseError("Expecting value", i)

\* JSONDecodeError(msg, doc, pos): "%s: line %d column %d (char %d)".
JSONDecodeError(msg, toks, at) ==
    LET pos == CharPos(toks, at) IN
    Exc("JSONDecodeError",
        msg \o ": line 1 column " \o ToString(pos + 1)
            \o " (char " \o ToString(pos) \o ")")

\* json.loads(s): [ok |-> TRUE, val |-> the value] or [ok |-> FALSE, exc |-> e].
json_loads(s) ==
    IF s = PyNone
    THEN [ok |-> FALSE,
          exc |-> Exc("TypeError",
                      "the JSON object must be str, bytes or bytearray, not NoneType")]
    ELSE LET r == scan_once(s.toks, 1) IN
         IF ~r.ok THEN [ok |-> FALSE, exc |-> JSONDecodeError(r.msg, s.toks, r.at)]
         ELSE IF r.end # Len(s.toks) + 1
         THEN [ok |-> FALSE, exc |-> JSONDecodeError("Extra data", s.toks, r.end)]
         ELSE [ok |-> TRUE, val |-> r.val]


----------------------------------------------------------------------------
(* What the database can answer *)

Point12 == <<"{", "\"type\"", ":", "\"Point\"", ",", "\"coordinates\"", ":",
             "[", "1", ",", "2", "]", "}">>
Point00 == <<"{", "\"type\"", ":", "\"Point\"", ",", "\"coordinates\"", ":",
             "[", "0", ",", "0", "]", "}">>
NotValidJson == <<"{", "not valid json">>
Truncated == <<"{", "\"type\"", ":", "\"Point\"">>

\* Values of a geometry column: NULL, '', two geometries, two broken texts.
GeometryValues ==
    {PyNone, PyStr(<<>>), PyStr(Point12), PyStr(Point00), PyStr(NotValidJson),
     PyStr(Truncated)}

ColumnValues(c) ==
    CASE c = "id" -> {1, 2}
      [] c = "name" -> {"A", "B"}
      [] c = "geom" -> {"raw"}
      [] c = "geometry" -> GeometryValues

\* cursor.description of the views' statements: id, <name column> as name,
\* ST_AsGeoJSON(geom) as geometry.
LayerColumns == <<"id", "name", "geometry">>

\* cursor.description of a statement given by the caller.
ColumnLists ==
    {LayerColumns, <<"id", "name", "geom", "geometry">>, <<"id", "name">>}

\* The tuples a row can be under the columns cols.
RECURSIVE Tuples(_)
Tuples(cols) ==
    IF cols = <<>> THEN {<<>>}
    ELSE {<<v>> \o t : v \in ColumnValues(Head(cols)), t \in Tuples(Tail(cols))}

\* cursor.fetchall(): up to MaxRows tuples.
RECURSIVE FetchAlls(_, _)
FetchAlls(cols, n) ==
    IF n = 0 THEN {<<>>}
    ELSE FetchAlls(cols, n - 1)
         \cup {Append(rows, t) : rows \in {r \in FetchAlls(cols, n - 1) : Len(r) = n - 1},
                                 t \in Tuples(cols)}

\* SQL texts a caller passes to fetch_all and execute_geojson_query.
Queries ==
    {"SELECT *, ST_AsGeoJSON(geom) as geometry FROM public.\"KorytarzeEkologiczne\"",
     "SELEKT"}

KorytarzeQuery ==
    "SELECT id, \"Nazwa_PL\" as name, ST_AsGeoJSON(geom) as geometry FROM public.\"KorytarzeEkologiczne\""
JcwpQuery ==
    "SELECT id, \"Nazwa_JCWP\" as name, ST_AsGeoJSON(geom) as geometry FROM public.\"JCWPRzeczne\""
KorytarzeGetAllQuery == "SELECT * FROM public.\"KorytarzeEkologiczne\""
JcwpGetAllQuery == "SELECT * FROM public.\"JCWPRzeczne\""

\* What connection.cursor() raises when the database cannot be reached.
ConnectErrors == {Exc("OperationalError", "could not connect to server")}
\* What cursor.execute() raises.
ExecuteErrors ==
    {Exc("ProgrammingError", "syntax error at or near \"SELEKT\""),
     Exc("OperationalError", "server closed the connection unexpectedly")}

----------------------------------------------------------------------------
(* The code's expressions *)

\* dict(zip(columns, row)): a later column of the same name wins.
DictZip(columns, row) ==
    [k \in {columns[i] : i \in 1..Len(columns)} |->
        LET last == CHOOSE i \in 1..Len(columns) :
                       /\ columns[i] = k
                       /\ \A j \in 1..Len(columns) : columns[j] = k => j <= i
        IN  row[last]]

\* [dict(zip(columns, row)) for row in cursor.fetchall()]
RowDicts(columns, rows) == [i \in 1..Len(rows) |-> DictZip(columns, rows[i])]

\* row.get(key): None when the key is missing.
Get(row, key) == IF key \in DOMAIN row THEN row[key] ELSE PyNone

\* row.get(key, default)
GetDefault(row, key, default) == IF key \in DOMAIN row THEN row[key] ELSE default

\* A filter that also drops the rows whose geometry does not parse.
HasGeometry_DropsUnparseable(row) ==
    Truthy(Get(row, "geometry")) /\ json_loads(Get(row, "geometry")).ok

\* The comprehension's condition: if row.get("geometry")
HasGeometry(row) == Truthy(Get(row, "geometry"))

\* {key: row[key] for key in row if key not in ["geometry", "geom"]}
Properties(row) == [key \in DOMAIN row \ {"geometry", "geom"} |-> row[key]]

\* One element of a features comprehension: the Feature dict, or the exception
\* json.loads raises.
Feature(properties, geometry) ==
    LET g == json_loads(geometry) IN
    IF g.ok
    THEN [ok |-> TRUE,
          val |-> [type |-> "Feature", properties |-> properties, geometry |-> g.val]]
    ELSE g

\* A comprehension that keeps what it built before the first element that raises.
Comprehension_Partial(elems) ==
    LET good == {i \in 1..Len(elems) : \A j \in 1..i : elems[j].ok} IN
    [ok |-> TRUE, val |-> [i \in 1..Cardinality(good) |-> elems[i].val]]

\* A list comprehension over elems evaluates them in order and stops at the
\* first that raises.
Comprehension(elems) ==
    IF \A i \in 1..Len(elems) : elems[i].ok
    THEN [ok |-> TRUE, val |-> [i \in 1..Len(elems) |-> elems[i].val]]
    ELSE LET first == CHOOSE i \in 1..Len(elems) :
                         ~elems[i].ok /\ \A j \in 1..(i - 1) : elems[j].ok
         IN  [ok |-> FALSE, exc |-> elems[first].exc]

\* The features in the reverse of the row order.
execute_geojson_query_features_Reversed(rows) ==
    LET kept == SelectSeq(rows, HasGeometry) IN
    Comprehension([i \in 1..Len(kept) |->
                      Feature(Properties(kept[Len(kept) + 1 - i]),
                              kept[Len(kept) + 1 - i]["geometry"])])

\* utils.py, execute_geojson_query: the "features" comprehension.
execute_geojson_query_features(rows) ==
    LET kept == SelectSeq(rows, HasGeometry) IN
    Comprehension([i \in 1..Len(kept) |->
                      Feature(Properties(kept[i]), kept[i]["geometry"])])

\* views.py, korytarze_ekologiczne: every row, properties id and name.
korytarze_ekologiczne_features(rows) ==
    Comprehension([i \in 1..Len(rows) |->
                      Feature([id |-> rows[i]["id"], name |-> rows[i]["name"]],
                              rows[i]["geometry"])])

\* views.py, jcwprzeczne: rows with a geometry; name is looked up under
\* "Nazwa_JCWP".
jcwprzeczne_features(rows) ==
    LET kept == SelectSeq(rows, HasGeometry) IN
    Comprehension([i \in 1..Len(kept) |->
                      Feature([id |-> kept[i]["id"],
                               name |-> GetDefault(kept[i], "Nazwa_JCWP", "Brak nazwy")],
                              kept[i]["geometry"])])

FeatureCollection(features) == [type |-> "FeatureCollection", features |-> features]

\* JsonResponse's default status.
HTTP_OK == 200

\* JsonResponse(body)
JsonResponse(body) == [status |-> HTTP_OK, body |-> body]

\* execute_geojson_query's except clause.
ErrorResponse(e) ==
    JsonResponse([error |-> str(e), message |-> "Error occurred while processing data."])

\* fetch_all's except clause prints this line.
ErrorLine(q, e) ==
    "Error occurred fetching data using query: " \o q \o ": " \o str(e)

\* A cursor closed only when the block did not raise.
CursorsAfterExit_LeakOnError(open, exc) == IF exc = NoExc THEN open - 1 ELSE open

\* Leaving `with connection.cursor() as cursor`: the cursor is closed whether
\* or not the block raised.
CursorsAfterExit(open, exc) == open - 1

NoRet == [kind |-> "none"]
Return(value) == [kind |-> "return", value |-> value]
Raise(exc) == [kind |-> "raise", exc |-> exc]

----------------------------------------------------------------------------
(* The calls *)

GenericOps == {"fetch_all", "execute_geojson_query"}
GetAllOps == {"KorytarzeEkologiczne.get_all", "JCWPRzeczne.get_all"}
ViewOps == {"korytarze_ekologiczne", "jcwprzeczne"}

Init ==
    /\ pc = "idle"
    /\ op = "none"
    /\ query = ""
    /\ cursorOpen = 0
    /\ acquired = 0
    /\ executed = 0
    /\ data = <<>>
    /\ raised = NoExc
    /\ ret = NoRet
    /\ printed = ""

\* A call of operation o with SQL q begins.
Begin(o, q) ==
    /\ pc \in {"idle", "done"}
    /\ pc' = "cursor"
    /\ op' = o
    /\ query' = q
    /\ acquired' = 0
    /\ executed' = 0
    /\ data' = <<>>
    /\ raised' = NoExc
    /\ ret' = NoRet
    /\ printed' = ""
    /\ UNCHANGED cursorOpen

Call_fetch_all == \E q \in Queries : Begin("fetch_all", q)
Call_execute_geojson_query == \E q \in Queries : Begin("execute_geojson_query", q)
Call_korytarze_ekologiczne == Begin("korytarze_ekologiczne", KorytarzeQuery)
Call_jcwprzeczne == Begin("jcwprzeczne", JcwpQuery)
Call_KorytarzeEkologiczne_get_all ==
    Begin("KorytarzeEkologiczne.get_all", KorytarzeGetAllQuery)
Call_JCWPRzeczne_get_all == Begin("JCWPRzeczne.get_all", JcwpGetAllQuery)

\* connection.cursor() returns a cursor and the `with` block is entered.
CursorOpens ==
    /\ pc = "cursor"
    /\ cursorOpen' = cursorOpen + 1
    /\ acquired' = acquired + 1
    /\ pc' = "execute"
    /\ UNCHANGED <<op, query, executed, data, raised, ret, printed>>

\* connection.cursor() raises: the database cannot be reached.
CursorFails ==
    /\ pc = "cursor"
    /\ \E e \in ConnectErrors : raised' = e
    /\ pc' = "except"
    /\ UNCHANGED <<op, query, cursorOpen, acquired, executed, data, ret, printed>>

\* The columns the statement of the call in progress yields.
Descriptions == IF op \in ViewOps THEN {LayerColumns} ELSE ColumnLists

\* cursor.execute(query) succeeds; columns and the row dicts are built.
ExecuteFetches ==
    /\ pc = "execute"
    /\ executed' = executed + 1
    /\ \E columns \in Descriptions :
         \E rows \in FetchAlls(columns, MaxRows) :
            data' = RowDicts(columns, rows)
    /\ pc' = "with_exit"
    /\ UNCHANGED <<op, query, cursorOpen, acquired, raised, ret, printed>>

\* cursor.execute(query) raises.
ExecuteFails ==
    /\ pc = "execute"
    /\ executed' = executed + 1
    /\ \E e \in ExecuteErrors : raised' = e
    /\ pc' = "with_exit"
    /\ UNCHANGED <<op, query, cursorOpen, acquired, data, ret, printed>>

\* The `with` block is left, normally or by the exception.
WithExit ==
    /\ pc = "with_exit"
    /\ cursorOpen' = CursorsAfterExit(cursorOpen, raised)
    /\ pc' = IF raised = NoExc THEN "result" ELSE "except"
    /\ UNCHANGED <<op, query, acquired, executed, data, raised, ret, printed>>

\* fetch_all: return results
fetch_all_return ==
    /\ pc = "result" /\ op = "fetch_all"
    /\ ret' = Return(data)
    /\ pc' = "done"
    /\ UNCHANGED <<op, query, cursorOpen, acquired, executed, data, raised, printed>>

\* fetch_all: except Exception as e: print(...); return []
fetch_all_except ==
    /\ pc = "except" /\ op = "fetch_all"
    /\ printed' = ErrorLine(query, raised)
    /\ ret' = Return(<<>>)
    /\ pc' = "done"
    /\ UNCHANGED <<op, query, cursorOpen, acquired, executed, data, raised>>

\* get_all (both models): return results
get_all_return ==
    /\ pc = "result" /\ op \in GetAllOps
    /\ ret' = Return(data)
    /\ pc' = "done"
    /\ UNCHANGED <<op, query, cursorOpen, acquired, executed, data, raised, printed>>

\* An empty feature list reported as a failure.
Respond_EmptyIsError(f) ==
    /\ pc = "result"
    /\ IF f.ok /\ f.val # <<>>
       THEN /\ ret' = Return(JsonResponse(FeatureCollection(f.val)))
            /\ pc' = "done"
            /\ UNCHANGED raised
       ELSE /\ raised' = IF f.ok THEN Exc("ValueError", "no features") ELSE f.exc
            /\ pc' = "except"
            /\ UNCHANGED ret
    /\ UNCHANGED <<op, query, cursorOpen, acquired, executed, data, printed>>

\* The rest of a call that builds a FeatureCollection from features f: the
\* JsonResponse is returned, or the comprehension's exception is raised.
Respond(f) ==
    /\ pc = "result"
    /\ IF f.ok
       THEN /\ ret' = Return(JsonResponse(FeatureCollection(f.val)))
            /\ pc' = "done"
            /\ UNCHANGED raised
       ELSE /\ raised' = f.exc
            /\ pc' = "except"
            /\ UNCHANGED ret
    /\ UNCHANGED <<op, query, cursorOpen, acquired, executed, data, printed>>

execute_geojson_query_respond ==
    op = "execute_geojson_query" /\ Respond(execute_geojson_query_features(data))

korytarze_ekologiczne_respond ==
    op = "korytarze_ekologiczne" /\ Respond(korytarze_ekologiczne_features(data))

jcwprzeczne_respond ==
    op = "jcwprzeczne" /\ Respond(jcwprzeczne_features(data))

\* execute_geojson_query: except Exception as e: return JsonResponse({...})
execute_geojson_query_except ==
    /\ pc = "except" /\ op = "execute_geojson_query"
    /\ ret' = Return(ErrorResponse(raised))
    /\ pc' = "done"
    /\ UNCHANGED <<op, query, cursorOpen, acquired, executed, data, raised, printed>>

\* The views and get_all have no handler: the exception leaves the call.
Propagate ==
    /\ pc = "except" /\ op \in ViewOps \cup GetAllOps
    /\ ret' = Raise(raised)
    /\ pc' = "done"
    /\ UNCHANGED <<op, query, cursorOpen, acquired, executed, data, raised, printed>>

Next ==
    \/ Call_fetch_all
    \/ Call_execute_geojson_query
    \/ Call_korytarze_ekologiczne
    \/ Call_jcwprzeczne
    \/ Call_KorytarzeEkologiczne_get_all
    \/ Call_JCWPRzeczne_get_all
    \/ CursorOpens
    \/ CursorFails
    \/ ExecuteFetches
    \/ ExecuteFails
    \/ WithExit
    \/ fetch_all_return
    \/ fetch_all_except
    \/ get_all_return
    \/ execute_geojson_query_respond
    \/ korytarze_ekologiczne_respond
    \/ jcwprzeczne_respond
    \/ execute_geojson_query_except
    \/ Propagate

Spec == Init /\ [][Next]_vars

----------------------------------------------------------------------------
(* Vocabulary of the properties *)

Done == pc = "done"

\* The operations that answer with a JsonResponse.
GeoOps == {"execute_geojson_query"} \cup ViewOps

\* connection.cursor() or cursor.execute() raised in the call.
QueryFailed == raised \in ConnectErrors \cup ExecuteErrors

\* The row has a geometry field that is neither null nor the empty string.
NonEmptyGeometry(row) ==
    /\ "geometry" \in DOMAIN row
    /\ row["geometry"] # PyNone
    /\ row["geometry"] # PyStr(<<>>)

\* The row's geometry field is non-empty and is not JSON.
Malformed(row) == NonEmptyGeometry(row) /\ ~json_loads(row["geometry"]).ok

\* Indices of the rows with a non-empty geometry.
Surviving(rows) == {i \in 1..Len(rows) : NonEmptyGeometry(rows[i])}

\* The k-th smallest element of the set of numbers S.
Kth(S, k) == CHOOSE x \in S : Cardinality({y \in S : y <= x}) = k

\* The call returned a JsonResponse whose body is a FeatureCollection.
IsFeatureCollection ==
    /\ op \in GeoOps
    /\ ret.kind = "return"
    /\ DOMAIN ret.value.body = {"type", "features"}
    /\ ret.value.body.type = "FeatureCollection"

\* The call returned a JsonResponse whose body is {error, message}.
IsErrorBody ==
    /\ op \in GeoOps
    /\ ret.kind = "return"
    /\ DOMAIN ret.value.body = {"error", "message"}

Features == ret.value.body.features

\* The feature f is the one built from row: the row's id and its parsed geometry.
BuiltFrom(f, row) ==
    /\ json_loads(row["geometry"]).ok
    /\ f.geometry = json_loads(row["geometry"]).val
    /\ f.properties.id = row["id"]

\* What the caller got carries a component named field: an attribute of the
\* exception raised to it, or a key of the response body.
Carries(field) ==
    \/ ret.kind = "raise" /\ field \in DOMAIN ret.exc
    \/ ret.kind = "return" /\ op \in GeoOps /\ field \in DOMAIN ret.value.body

Carried(field) == IF ret.kind = "raise" THEN ret.exc[field] ELSE ret.value.body[field]

----------------------------------------------------------------------------
(* Properties *)

\* C1: when the SQL execution inside fetch_all fails, the caller observes a
\* failure carrying the original query text, never a returned (empty) list.
C1_QueryFailurePropagates ==
    (Done /\ op = "fetch_all" /\ raised \in ExecuteErrors)
        => /\ ret.kind = "raise"
           /\ Carries("query")
           /\ Carried("query") = query

\* C2: when a row's geometry is non-empty and not parseable, the call fails with
\* an outcome that is not a FeatureCollection and that carries the offending row.
C2_MalformedGeometrySurfaces ==
    (Done /\ op \in GeoOps /\ ~QueryFailed /\ \E i \in 1..Len(data) : Malformed(data[i]))
        => /\ ~IsFeatureCollection
           /\ Carries("row")
           /\ \E i \in 1..Len(data) : Malformed(data[i]) /\ Carried("row") = data[i]

\* C3: a layer request in which the query or the translation failed never
\* answers with HTTP 200; the response it returns has a non-success status and
\* the body {error, message}.  (A view that lets the exception escape returns no
\* response of its own; that case is left to the framework and not judged here.)
C3_FailureIsNotHttp200 ==
    (Done /\ op \in GeoOps /\ raised # NoExc /\ ret.kind = "return")
        => /\ ret.value.status # HTTP_OK
           /\ DOMAIN ret.value.body = {"error", "message"}

\* C4: in a FeatureCollection that a call returns, the features are exactly the
\* rows with a non-empty geometry: as many features as such rows, every feature
\* built from such a row (so none from a row without geometry, and none without
\* a parsed geometry), and every such row has its feature.
C4_GeometryFiltering ==
    (Done /\ IsFeatureCollection)
        => /\ Len(Features) = Cardinality(Surviving(data))
           /\ \A k \in 1..Len(Features) :
                 \E i \in Surviving(data) : BuiltFrom(Features[k], data[i])
           /\ \A i \in Surviving(data) :
                 \E k \in 1..Len(Features) : BuiltFrom(Features[k], data[i])

\* C4's case: a FeatureCollection returned for rows of which one has a geometry
\* and one has none.
C4_Witness ==
    /\ Done /\ IsFeatureCollection
    /\ op \in {"execute_geojson_query", "jcwprzeczne"}
    /\ Len(data) = 2
    /\ Cardinality(Surviving(data)) = 1
    /\ Len(Features) = 1

\* C5: in every translation path, rows whose geometry is null, empty or missing
\* do not make the request fail: when the query succeeded and every non-empty
\* geometry is parseable, the call returns a FeatureCollection.
C5_AbsentGeometryIsSkip ==
    (/\ Done /\ op \in GeoOps /\ ~QueryFailed
     /\ \E i \in 1..Len(data) : ~NonEmptyGeometry(data[i])
     /\ \A i \in 1..Len(data) : ~Malformed(data[i]))
        => IsFeatureCollection

\* C6: the properties of every emitted feature are the source row without the
\* keys geometry and geom, each key with the row's own value (so name is the
\* row's name).
C6_PropertiesAreRowColumns ==
    (Done /\ IsFeatureCollection /\ Len(Features) = Cardinality(Surviving(data)))
        => \A k \in 1..Len(Features) :
              LET row == data[Kth(Surviving(data), k)] IN
              Features[k].properties =
                  [c \in DOMAIN row \ {"geometry", "geom"} |-> row[c]]

\* C7: the k-th feature of a returned FeatureCollection is built from the k-th
\* row (in query order) among the rows with a non-empty geometry; there are no
\* more features than such rows.
C7_OrderPreserved ==
    (Done /\ IsFeatureCollection)
        => /\ Len(Features) <= Cardinality(Surviving(data))
           /\ \A k \in 1..Len(Features) :
                 BuiltFrom(Features[k], data[Kth(Surviving(data), k)])

\* C7's case: two features returned, distinguishable by id and by geometry.
C7_Witness ==
    /\ Done /\ IsFeatureCollection
    /\ Len(Features) = 2
    /\ Features[1].properties.id # Features[2].properties.id
    /\ Features[1].geometry # Features[2].geometry

\* C8 as stated: every call, when it returns, has acquired exactly one cursor,
\* executed exactly one query on it, and left no cursor open.
C8_ExactlyOneCursor ==
    Done => (acquired = 1 /\ executed = 1 /\ cursorOpen = 0)

\* C8 amended: a call acquires at most one cursor and executes at most one query,
\* on that cursor; a cursor is open only while the call is inside its `with`
\* block; when the call returns no cursor is open, and it has acquired one cursor
\* and executed one query unless connection.cursor() itself raised, in which
\* case it has acquired none and executed none.
C8_CursorScoped ==
    /\ acquired <= 1
    /\ executed <= acquired
    /\ cursorOpen = (IF pc \in {"execute", "with_exit"} THEN 1 ELSE 0)
    /\ Done => /\ cursorOpen = 0
               /\ raised \notin ConnectErrors => (acquired = 1 /\ executed = 1)
               /\ raised \in ConnectErrors => (acquired = 0 /\ executed = 0)

\* C8's case: a call whose query failed has returned and its cursor is closed.
C8_Witness ==
    /\ Done
    /\ raised \in ExecuteErrors
    /\ acquired = 1
    /\ cursorOpen = 0

\* C9: when the query succeeds and returns no rows, or (where rows without
\* geometry are filtered) only rows without geometry, the body is
\* {type: FeatureCollection, features: []} and not an error.
C9_EmptyResultIsSuccess ==
    (/\ Done /\ op \in GeoOps /\ ~QueryFailed
     /\ \/ data = <<>>
        \/ op # "korytarze_ekologiczne" /\ Surviving(data) = {})
        => /\ ret.kind = "return"
           /\ ret.value.body = [type |-> "FeatureCollection", features |-> <<>>]

\* C9's case: execute_geojson_query returned for rows that all lack geometry.
C9_Witness ==
    /\ Done /\ op = "execute_geojson_query" /\ ~QueryFailed
    /\ Len(data) = 2
    /\ Surviving(data) = {}
    /\ IsFeatureCollection

\* C10: execute_geojson_query never raises; it returns either a FeatureCollection
\* with a feature for every row with a non-empty geometry, all of them
\* parseable, or an {error, message} body without features; with a row whose
\* geometry fails to parse it returns the error body.
C10_AllOrNothing ==
    (Done /\ op = "execute_geojson_query")
        => /\ ret.kind = "return"
           /\ \/ /\ IsFeatureCollection
                 /\ Len(Features) = Cardinality(Surviving(data))
                 /\ \A i \in Surviving(data) : ~Malformed(data[i])
              \/ /\ IsErrorBody
                 /\ QueryFailed \/ \E i \in 1..Len(data) : Malformed(data[i])

\* C10's case: the error body returned although another row of the request has
\* a parseable geometry.
C10_Witness ==
    /\ Done /\ op = "execute_geojson_query"
    /\ IsErrorBody
    /\ \E i \in Surviving(data) : ~Malformed(data[i])
    /\ \E i \in Surviving(data) : Malformed(data[i])

============================================================================
